---- MODULE Spec2Model ----
(***************************************************************************)
(* reindeer: an entity store over an ordered key-value engine (sled).      *)
(* Entity Store (src/src/entity.rs), the byte-key codec (AsBytes), the     *)
(* auto-increment specialisation, the JSON import/export wrapper           *)
(* (src/src/import_export.rs) and the Relation Engine's deletion           *)
(* traversal.  crate::relation lies outside src/: the                      *)
(* Relation Engine and the family descriptors are modelled from spec.md    *)
(* (sections 3, 4.3, 4.4, 6) and from the behaviour src/src/test/mod.rs    *)
(* asserts.                                                                *)
(***************************************************************************)
EXTENDS Integers, Sequences, FiniteSets, TLC

VARIABLES trees, relations, last, exported, overflow_checks, walk, families, callers

vars == <<trees, relations, last, exported, overflow_checks, walk, families, callers>>

(***************************************************************************)
(* Bounds of the model.                                                    *)
(***************************************************************************)
\* the auto-increment store of the store model holds keys 0..MaxKey (and u32::MAX)
MaxKey == 1
\* record bodies carry a property drawn from 1..MaxProp
MaxProp == 2
\* a struct of the derive-macro model declares up to MaxFields fields
MaxFields == 2

(***************************************************************************)
(* u32.  TLC's integers are 32 bit signed, so a u32 is kept as two 16 bit  *)
(* limbs; the value is hi * 65536 + lo.                                    *)
(***************************************************************************)
Limb == 256 * 256

U32(n) == [hi |-> n \div Limb, lo |-> n % Limb]

U32Max == [hi |-> Limb - 1, lo |-> Limb - 1]

U32Less(a, b) == a.hi < b.hi \/ (a.hi = b.hi /\ a.lo < b.lo)

\* mutant: the bytes in little-endian order
to_be_bytes_little_endian(v) == <<v.lo % 256, v.lo \div 256, v.hi % 256, v.hi \div 256>>

\* u32::to_be_bytes
to_be_bytes(v) == <<v.hi \div 256, v.hi % 256, v.lo \div 256, v.lo % 256>>

\* u32::from_be_bytes(key.as_ref().try_into().unwrap())
from_be_bytes(b) == [hi |-> b[1] * 256 + b[2], lo |-> b[3] * 256 + b[4]]

\* key + 1 where the build wraps on overflow (release profile)
wrapping_succ(v) ==
    IF v.lo + 1 < Limb THEN [hi |-> v.hi, lo |-> v.lo + 1]
    ELSE [hi |-> (v.hi + 1) % Limb, lo |-> 0]

(***************************************************************************)
(* Strings are sequences of ASCII codes; String::as_bytes yields the UTF-8 *)
(* bytes, one per ASCII character, with no length prefix.                  *)
(***************************************************************************)
Utf8(c) == <<c>>

RECURSIVE str_as_bytes(_)
str_as_bytes(s) == IF s = <<>> THEN <<>> ELSE Utf8(Head(s)) \o str_as_bytes(Tail(s))

as_bytes_String(s) == str_as_bytes(s)

as_bytes_u32(v) == to_be_bytes(v)

as_bytes_u32_u32(k) == to_be_bytes(k[1]) \o to_be_bytes(k[2])

as_bytes_u32_String(k) == to_be_bytes(k[1]) \o as_bytes_String(k[2])

\* the child key of the test entities, (String, u32): component encodings
\* concatenated (spec.md 4.1)
as_bytes_String_u32(k) == as_bytes_String(k[1]) \o to_be_bytes(k[2])

(***************************************************************************)
(* The entity stores of the test schema and their key types.               *)
(***************************************************************************)
Stores == <<"entity_1", "entity_2", "entity_3", "child_entity_1", "child_entity_2">>

StoreNames == {Stores[i] : i \in 1..Len(Stores)}

StoreIndex(s) == CHOOSE i \in 1..Len(Stores) : Stores[i] = s

KeyType(s) ==
    CASE s = "entity_1" -> "u32"
      [] s = "entity_2" -> "String"
      [] s = "entity_3" -> "u32"
      [] s = "child_entity_1" -> "String_u32"
      [] s = "child_entity_2" -> "u32_u32"

as_bytes(kt, k) ==
    CASE kt = "u32" -> as_bytes_u32(k)
      [] kt = "String" -> as_bytes_String(k)
      [] kt = "String_u32" -> as_bytes_String_u32(k)
      [] kt = "u32_u32" -> as_bytes_u32_u32(k)
      [] kt = "u32_String" -> as_bytes_u32_String(k)

tree_name(e) == e.store

get_key(e) == e.key

\* mutant: the key of the record is left as it was
set_key_ignored(e, k) == e

set_key(e, k) == [e EXCEPT !.key = k]

KeyBytes(e) == as_bytes(KeyType(tree_name(e)), get_key(e))

\* bincode::serialize / bincode::deserialize: the record codec, a total round trip
to_ivec(e) == [bin |-> e]

from_ivec(v) == v.bin

(***************************************************************************)
(* The ordered key-value tree: a function from the key bytes present to    *)
(* the stored value, iterated in lexicographic order of the key bytes.     *)
(***************************************************************************)
Min(a, b) == IF a < b THEN a ELSE b

IsPrefix(p, k) == Len(p) <= Len(k) /\ \A i \in 1..Len(p) : k[i] = p[i]

LexLess(a, b) ==
    \E i \in 1..(Min(Len(a), Len(b)) + 1) :
        /\ \A j \in 1..(i - 1) : a[j] = b[j]
        /\ \/ (i > Len(a) /\ i <= Len(b))
           \/ (i <= Len(a) /\ i <= Len(b) /\ a[i] < b[i])

RECURSIVE SortedKeys(_)
SortedKeys(S) ==
    IF S = {} THEN <<>>
    ELSE LET m == CHOOSE x \in S : \A y \in S \ {x} : LexLess(x, y)
         IN <<m>> \o SortedKeys(S \ {m})

EmptyTree == [k \in {} |-> 0]

tree_insert(t, k, v) == [x \in (DOMAIN t) \cup {k} |-> IF x = k THEN v ELSE t[x]]

tree_remove(t, k) == [x \in (DOMAIN t) \ {k} |-> t[x]]

\* Tree::scan_prefix: the keys that start with p, in key order
scan_prefix(t, p) == SortedKeys({k \in DOMAIN t : IsPrefix(p, k)})

\* Tree::iter
tree_iter(t) == SortedKeys(DOMAIN t)

\* Option<T>
None == <<>>

Some(e) == <<e>>

\* Tree::last: the entry with the greatest key, if any
tree_last(t) == LET ks == tree_iter(t) IN IF ks = <<>> THEN None ELSE Some(ks[Len(ks)])

SeqToSet(s) == {s[i] : i \in 1..Len(s)}

RECURSIVE Flatten(_)
Flatten(ss) == IF ss = <<>> THEN <<>> ELSE Head(ss) \o Flatten(Tail(ss))

(***************************************************************************)
(* Entity Store primitives (src/src/entity.rs), as functions of the        *)
(* database's entity trees T: store name -> tree.                          *)
(***************************************************************************)
get_tree(T, s) == T[s]

\* Option<Self>
\* Entity::get_from_u8_array
get_from_u8_array(T, s, kb) ==
    IF kb \in DOMAIN get_tree(T, s) THEN Some(from_ivec(get_tree(T, s)[kb])) ELSE None

\* Entity::get
get(T, s, k) == get_from_u8_array(T, s, as_bytes(KeyType(s), k))

\* Entity::get_number
get_number(T, s) == Cardinality(DOMAIN get_tree(T, s))

\* mutant: a point lookup of the prefix instead of a prefix scan
get_with_prefix_exact(T, s, prefix) ==
    LET t == get_tree(T, s)
    IN IF prefix \in DOMAIN t THEN <<from_ivec(t[prefix])>> ELSE <<>>

\* Entity::get_with_prefix
get_with_prefix(T, s, prefix) ==
    LET t == get_tree(T, s)
        ks == scan_prefix(t, prefix)
    IN [i \in 1..Len(ks) |-> from_ivec(t[ks[i]])]

\* Entity::get_all
get_all(T, s) ==
    LET t == get_tree(T, s)
        ks == tree_iter(t)
    IN [i \in 1..Len(ks) |-> from_ivec(t[ks[i]])]

\* usize of a 64-bit target: four 16-bit limbs, least significant first
Usize(n) == <<n % Limb, n \div Limb, 0, 0>>

UsizeMax == <<Limb - 1, Limb - 1, Limb - 1, Limb - 1>>

UsizeLess(a, b) ==
    \E i \in 1..4 : a[i] < b[i] /\ \A j \in (i + 1)..4 : a[j] = b[j]

\* a + b on usize: the sum modulo 2^64 and whether it overflowed
RECURSIVE limbs_add(_, _, _)
limbs_add(a, b, carry) ==
    IF a = <<>> THEN <<carry>>
    ELSE LET sum == Head(a) + Head(b) + carry
         IN <<sum % Limb>> \o limbs_add(Tail(a), Tail(b), sum \div Limb)

usize_add(a, b) ==
    LET r == limbs_add(a, b, 0)
    IN [overflow |-> r[5] = 1, value |-> SubSeq(r, 1, 4)]

\* for i in 0..(start + offset) { match iter.next() { Some(e) => if i >= start
\* { result.push(..) }, None => stop } }: ks is what the iterator yields,
\* result holds <<position, record>> pairs in the order pushed
RECURSIVE scan_loop(_, _, _, _, _, _)
scan_loop(t, ks, i, n, start, result) ==
    IF ~UsizeLess(Usize(i), n) THEN result
    ELSE IF i >= Len(ks) THEN result
    ELSE scan_loop(t, ks, i + 1, n, start,
                   IF ~UsizeLess(Usize(i), start)
                     THEN Append(result, <<i + 1, from_ivec(t[ks[i + 1]])>>)
                   ELSE result)

Reverse(q) == [i \in 1..Len(q) |-> q[Len(q) + 1 - i]]

Records(pairs) == [i \in 1..Len(pairs) |-> pairs[i][2]]

\* the iterator of get_from_start and get_from_end
scan_iter(t, prefix) ==
    IF prefix # None THEN scan_prefix(t, prefix[1]) ELSE tree_iter(t)

\* Entity::get_from_start; start + offset panics in a build with overflow
\* checks and wraps in one without
get_from_start(T, s, start, offset, prefix, checks) ==
    LET t == get_tree(T, s)
        n == usize_add(start, offset)
    IN IF n.overflow /\ checks THEN [panic |-> TRUE, result |-> <<>>]
       ELSE [panic |-> FALSE,
             result |-> Records(scan_loop(t, scan_iter(t, prefix), 0, n.value, start, <<>>))]

\* Entity::get_from_end: the same loop on next_back, then result.reverse()
get_from_end(T, s, start, offset, prefix, checks) ==
    LET t == get_tree(T, s)
        n == usize_add(start, offset)
    IN IF n.overflow /\ checks THEN [panic |-> TRUE, result |-> <<>>]
       ELSE [panic |-> FALSE,
             result |-> Reverse(Records(scan_loop(t, Reverse(scan_iter(t, prefix)), 0,
                                                  n.value, start, <<>>)))]

\* Entity::exists
exists(T, s, k) == as_bytes(KeyType(s), k) \in DOMAIN get_tree(T, s)

\* mutant: an entry already stored under the key is kept
save_keeps_existing(T, e) ==
    IF KeyBytes(e) \in DOMAIN get_tree(T, tree_name(e)) THEN T
    ELSE [T EXCEPT ![tree_name(e)] = tree_insert(@, KeyBytes(e), to_ivec(e))]

\* Entity::save
save(T, e) ==
    [T EXCEPT ![tree_name(e)] = tree_insert(@, KeyBytes(e), to_ivec(e))]

\* mutant: the tree is opened but the entry is not removed
remove_from_u8_array_noop(T, s, kb) == T

\* Entity::remove_from_u8_array (the Entity Store primitive)
remove_from_u8_array(T, s, kb) == [T EXCEPT ![s] = tree_remove(@, kb)]

\* Entity::remove (the Entity Store primitive)
remove(T, s, k) == remove_from_u8_array(T, s, as_bytes(KeyType(s), k))

\* the closures handed to update and filter_update, Fn(&mut Self): one that
\* sets the record's property to prop, one that adds prop to it and one that
\* sets its key field to key
SetProp(p) == [field |-> "prop", prop |-> p, key |-> <<>>]

AddProp(n) == [field |-> "add", prop |-> n, key |-> <<>>]

SetKey(k) == [field |-> "key", prop |-> 0, key |-> <<k>>]

apply_closure(f, e) ==
    CASE f.field = "prop" -> [e EXCEPT !.prop = f.prop]
      [] f.field = "add" -> [e EXCEPT !.prop = @ + f.prop]
      [] OTHER -> set_key(e, f.key[1])

\* the predicates handed to the filters, Fn(&Self) -> bool: on the property
\* or on the key field
apply_pred(f, e) == IF f.field = "prop" THEN e.prop = f.prop ELSE get_key(e) = f.key[1]

\* mutant: an absent key gets a record built by the closure
update_inserts_absent(T, s, k, f) ==
    LET kb == as_bytes(KeyType(s), k)
        t == get_tree(T, s)
        old == IF kb \in DOMAIN t THEN from_ivec(t[kb]) ELSE [store |-> s, key |-> k, prop |-> 1]
    IN [T EXCEPT ![s] = tree_insert(@, kb, to_ivec(apply_closure(f, old)))]

\* the closure update hands to fetch_and_update: |e| e.map(|u8_arr| { .. f(&mut
\* value); value.to_ivec() }), from the current entry to the new one
update_closure(f, cur) == IF cur = None THEN None ELSE Some(to_ivec(apply_closure(f, from_ivec(cur[1]))))

\* Tree::get as fetch_and_update reads it: the entry under kb, if any
tree_get(t, kb) == IF kb \in DOMAIN t THEN Some(t[kb]) ELSE None

\* mutant: the swap does not compare the entry with the one that was read
compare_and_swap_blind(t, kb, old, new) ==
    [ok |-> TRUE, tree |-> IF new = None THEN tree_remove(t, kb) ELSE tree_insert(t, kb, new[1])]

\* Tree::compare_and_swap, the step fetch_and_update retries until it succeeds
compare_and_swap(t, kb, old, new) ==
    IF tree_get(t, kb) # old THEN [ok |-> FALSE, tree |-> t]
    ELSE [ok |-> TRUE,
          tree |-> IF new = None THEN tree_remove(t, kb) ELSE tree_insert(t, kb, new[1])]

\* Entity::update: fetch_and_update maps a present value through f and skips
\* an absent key
update(T, s, k, f) ==
    LET kb == as_bytes(KeyType(s), k)
        t == get_tree(T, s)
    IN IF kb \in DOMAIN t
         THEN [T EXCEPT ![s] = tree_insert(@, kb, to_ivec(apply_closure(f, from_ivec(t[kb]))))]
       ELSE T

\* Entity::get_with_filter
get_with_filter(T, s, f) == SelectSeq(get_all(T, s), LAMBDA e : apply_pred(f, e))

\* for entity in .. { Self::remove(&entity.get_key(), db)?; }
RECURSIVE remove_each(_, _, _)
remove_each(T, s, es) ==
    IF es = <<>> THEN T ELSE remove_each(remove(T, s, get_key(Head(es))), s, Tail(es))

\* Entity::remove_prefixed
remove_prefixed(T, s, prefix) == remove_each(T, s, get_with_prefix(T, s, prefix))

\* Entity::filter_remove
filter_remove(T, s, f) ==
    LET res == get_with_filter(T, s, f)
    IN [trees |-> remove_each(T, s, res), res |-> res]

\* for entity in &mut res { modifier(entity); entity.save(db)?; }
RECURSIVE modify_each(_, _, _)
modify_each(T, modifier, es) ==
    IF es = <<>> THEN T
    ELSE modify_each(save(T, apply_closure(modifier, Head(es))), modifier, Tail(es))

\* Entity::filter_update
filter_update(T, s, filter, modifier) ==
    modify_each(T, modifier, get_with_filter(T, s, filter))

\* Entity::import_json: for each in all { each.save(db)?; }
RECURSIVE import_json(_, _)
import_json(T, all) == IF all = <<>> THEN T ELSE import_json(save(T, Head(all)), Tail(all))

\* Entity::export_json: the records of get_all
export_json(T, s) == get_all(T, s)

\* AutoIncrementEntity::get_next_key: last key + 1, or Default::default() on
\* an empty tree.  The addition is unguarded: at u32::MAX it panics in a
\* build with overflow checks and wraps to 0 in one without.
get_next_key(T, s, checks) ==
    LET l == tree_last(get_tree(T, s))
    IN IF l = None THEN [panic |-> FALSE, key |-> U32(0)]
       ELSE LET v == from_be_bytes(l[1])
            IN IF v = U32Max /\ checks
                 THEN [panic |-> TRUE, key |-> v]
               ELSE [panic |-> FALSE, key |-> wrapping_succ(v)]

\* AutoIncrementEntity::save_next
save_next(T, e, checks) ==
    LET n == get_next_key(T, tree_name(e), checks)
    IN IF n.panic THEN [panic |-> TRUE, trees |-> T, key |-> n.key]
       ELSE [panic |-> FALSE, trees |-> save(T, set_key(e, n.key)), key |-> n.key]

(***************************************************************************)
(* Family descriptors of the test schema (spec.md 4.4, scenarios 1-5):     *)
(* entity_1 <-> entity_3 are siblings, Cascade when the entity_1 side is   *)
(* deleted and Error when the entity_3 side is; entity_2 has Cascade       *)
(* children in child_entity_1; entity_3 has Error children in              *)
(* child_entity_2.                                                         *)
(***************************************************************************)
Policies == {"Cascade", "BreakLink", "Error"}

sibling_trees(s) ==
    CASE s = "entity_1" -> << <<"entity_3", "Cascade">> >>
      [] s = "entity_3" -> << <<"entity_1", "Error">> >>
      [] OTHER -> <<>>

child_trees(s) ==
    CASE s = "entity_2" -> << <<"child_entity_1", "Cascade">> >>
      [] s = "entity_3" -> << <<"child_entity_2", "Error">> >>
      [] OTHER -> <<>>

\* get_children::<C>() on a parent with key bytes kb: the prefix scan of C
get_children(T, kb, c) == get_with_prefix(T, c, kb)

(***************************************************************************)
(* Free relations (spec.md 3, 4.3, 6).  The relations tree maps the half   *)
(* <<store_A, key_A, store_B, key_B>> to <<policy when A is deleted,       *)
(* policy when B is deleted>>; the mirror half carries the swapped pair.   *)
(***************************************************************************)
Half(a, b) == <<a[1], a[2], b[1], b[2]>>

Mirror(h) == <<h[3], h[4], h[1], h[2]>>

SideA(h) == <<h[1], h[2]>>

SideB(h) == <<h[3], h[4]>>

Ident(e) == <<tree_name(e), KeyBytes(e)>>

rel_insert(R, h, v) == [x \in (DOMAIN R) \cup {h} |-> IF x = h THEN v ELSE R[x]]

rel_remove(R, hs) == [x \in (DOMAIN R) \ hs |-> R[x]]

\* Relation::create: both halves are written
Relation_create(R, a, b, pa, pb) ==
    rel_insert(rel_insert(R, Half(a, b), <<pa, pb>>), Half(b, a), <<pb, pa>>)

\* Relation::remove_by_keys: both halves are removed
Relation_remove_by_keys(R, a, b) == rel_remove(R, {Half(a, b), Half(b, a)})

\* the halves going out of record a, in the order of the relations tree
OutgoingTags(R, a) == {<<StoreIndex(h[3])>> \o h[4] : h \in {x \in DOMAIN R : SideA(x) = a}}

Outgoing(R, a) ==
    LET tags == SortedKeys(OutgoingTags(R, a))
    IN [i \in 1..Len(tags) |-> Half(a, <<Stores[Head(tags[i])], Tail(tags[i])>>)]

\* Relation::referers::<A, E>: the keys of the E records related to a
referers(R, a, e) ==
    LET hs == Outgoing(R, a)
        idx == {i \in 1..Len(hs) : hs[i][3] = e}
    IN SortedKeys({hs[i][4] : i \in idx})

\* Entity::get_related::<E>
get_related(T, R, a, e) ==
    LET ks == referers(R, a, e)
        present == {i \in 1..Len(ks) : ks[i] \in DOMAIN get_tree(T, e)}
    IN SortedKeys({ks[i] : i \in present})

\* Entity::has_related::<E>
has_related(R, a, e) == referers(R, a, e) # <<>>

(***************************************************************************)
(* The deletion traversal (spec.md 4.3, "Deletion algorithm").  A record   *)
(* is <<store, key bytes>>.  The walk is depth first over an explicit      *)
(* stack of edges; sibling and child edges of a record come before its     *)
(* free edges.                                                             *)
(***************************************************************************)
Edge(kind, from, to, policy) == [t |-> kind, from |-> from, to |-> to, policy |-> policy]

Finish(rec) == Edge("finish", rec, rec, "none")

SiblingEdges(T, rec) ==
    LET ss == sibling_trees(rec[1])
    IN Flatten([i \in 1..Len(ss) |->
           IF rec[2] \in DOMAIN get_tree(T, ss[i][1])
           THEN <<Edge("sibling", rec, <<ss[i][1], rec[2]>>, ss[i][2])>>
           ELSE <<>>])

ChildEdges(T, rec) ==
    LET cs == child_trees(rec[1])
    IN Flatten([i \in 1..Len(cs) |->
           LET children == get_children(T, rec[2], cs[i][1])
           IN [j \in 1..Len(children) |->
                  Edge("child", rec, Ident(children[j]), cs[i][2])]])

FreeEdges(R, rec) ==
    LET hs == Outgoing(R, rec)
    IN [i \in 1..Len(hs) |-> Edge("free", rec, SideB(hs[i]), R[hs[i]][1])]

Edges(T, R, rec) == SiblingEdges(T, rec) \o ChildEdges(T, rec) \o FreeEdges(R, rec)

NoRec == <<"", <<>>>>

NoWalk ==
    [stack |-> <<>>, visited |-> {}, plan |-> <<>>, unlink |-> {}, err |-> FALSE,
     root |-> NoRec, active |-> FALSE]

WalkInit(T, R, root) ==
    [stack |-> Edges(T, R, root) \o <<Finish(root)>>,
     visited |-> {root}, plan |-> <<>>, unlink |-> {}, err |-> FALSE,
     root |-> root, active |-> TRUE]

\* mutant: the walk does not consult the visited set
WalkStep_no_visited(T, R, st) ==
    LET e == Head(st.stack)
        rest == Tail(st.stack)
    IN IF e.t = "finish"
         THEN [st EXCEPT !.stack = rest, !.plan = Append(@, e.to)]
       ELSE IF e.policy = "Error"
         THEN [st EXCEPT !.err = TRUE]
       ELSE IF e.policy = "BreakLink"
         THEN [st EXCEPT !.stack = rest, !.unlink = @ \cup {e}]
       ELSE [st EXCEPT !.stack = Edges(T, R, e.to) \o <<Finish(e.to)>> \o rest,
                       !.visited = @ \cup {e.to}]

\* mutant: an Error edge is followed like a Cascade edge
WalkStep_error_as_cascade(T, R, st) ==
    LET e == Head(st.stack)
        rest == Tail(st.stack)
    IN IF e.t = "finish"
         THEN [st EXCEPT !.stack = rest, !.plan = Append(@, e.to)]
       ELSE IF e.to \in st.visited
         THEN [st EXCEPT !.stack = rest]
       ELSE IF e.policy = "BreakLink"
         THEN [st EXCEPT !.stack = rest, !.unlink = @ \cup {e}]
       ELSE [st EXCEPT !.stack = Edges(T, R, e.to) \o <<Finish(e.to)>> \o rest,
                       !.visited = @ \cup {e.to}]

\* one step of the planning walk: the edge on top of the stack
WalkStep(T, R, st) ==
    LET e == Head(st.stack)
        rest == Tail(st.stack)
    IN IF e.t = "finish"
         THEN [st EXCEPT !.stack = rest, !.plan = Append(@, e.to)]
       ELSE IF e.to \in st.visited
         THEN [st EXCEPT !.stack = rest]
       ELSE IF e.policy = "Error"
         THEN [st EXCEPT !.err = TRUE]
       ELSE IF e.policy = "BreakLink"
         THEN [st EXCEPT !.stack = rest, !.unlink = @ \cup {e}]
       ELSE [st EXCEPT !.stack = Edges(T, R, e.to) \o <<Finish(e.to)>> \o rest,
                       !.visited = @ \cup {e.to}]

WalkDone(st) == st.err \/ st.stack = <<>>

RECURSIVE WalkRun(_, _, _)
WalkRun(T, R, st) == IF WalkDone(st) THEN st ELSE WalkRun(T, R, WalkStep(T, R, st))

\* phase 1: the plan of remove(root)
Plan(T, R, root) == WalkRun(T, R, WalkInit(T, R, root))

\* phase 2: the Entity Store primitive on every planned record, in post-order
RECURSIVE ApplyPlan(_, _)
ApplyPlan(T, plan) ==
    IF plan = <<>> THEN T
    ELSE ApplyPlan(remove_from_u8_array(T, Head(plan)[1], Head(plan)[2]), Tail(plan))

\* mutant: only the halves on the deleted records' own side are removed
CleanUp_forgets_mirror(R, st) ==
    rel_remove(R, {h \in DOMAIN R : SideA(h) \in SeqToSet(st.plan)})

\* phase 3: both halves of every BreakLink free edge and of every free
\* relation of a deleted record
CleanUp(R, st) ==
    LET gone == SeqToSet(st.plan)
        broken == {Half(e.from, e.to) : e \in {x \in st.unlink : x.t = "free"}}
    IN rel_remove(R, {h \in DOMAIN R :
                         \/ SideA(h) \in gone
                         \/ SideB(h) \in gone
                         \/ h \in broken
                         \/ Mirror(h) \in broken})

\* phases 2 and 3 on a finished walk; an Error edge aborts before anything
\* is written
Finalize(T, R, st) ==
    IF st.err
       THEN [res |-> "err", trees |-> T, relations |-> R, plan |-> <<>>, unlink |-> {}]
       ELSE [res |-> "ok", trees |-> ApplyPlan(T, st.plan),
             relations |-> CleanUp(R, st), plan |-> st.plan,
             unlink |-> {Half(e.from, e.to) : e \in {x \in st.unlink : x.t = "free"}}]

\* the Entity Facade's remove (spec.md 4.3, 4.5): plan, then apply and clean up
facade_remove(T, R, root) == Finalize(T, R, Plan(T, R, root))

\* Entity::create_relation
create_relation(R, a, b, pa, pb) == Relation_create(R, Ident(a), Ident(b), pa, pb)

\* Entity::remove_relation
remove_relation(R, a, b) == Relation_remove_by_keys(R, Ident(a), Ident(b))

\* Entity::remove_relation_with_key::<E>
remove_relation_with_key(R, a, e, other) ==
    Relation_remove_by_keys(R, <<tree_name(a), as_bytes(KeyType(tree_name(a)), get_key(a))>>,
                            <<e, other>>)

\* mutant: the relation is removed and the related record is kept
RECURSIVE remove_related_loop_keeps_record(_, _, _, _, _)
remove_related_loop_keeps_record(T, R, a, e, refs) ==
    IF refs = <<>> THEN [trees |-> T, relations |-> R]
    ELSE remove_related_loop_keeps_record(
             T,
             Relation_remove_by_keys(R, <<tree_name(a), as_bytes(KeyType(tree_name(a)), get_key(a))>>,
                                     <<e, Head(refs)>>),
             a, e, Tail(refs))

\* Entity::remove_related::<E>: the loop over the referers
RECURSIVE remove_related_loop(_, _, _, _, _)
remove_related_loop(T, R, a, e, refs) ==
    IF refs = <<>> THEN [trees |-> T, relations |-> R]
    ELSE remove_related_loop(
             remove_from_u8_array(T, e, Head(refs)),
             Relation_remove_by_keys(R, <<tree_name(a), as_bytes(KeyType(tree_name(a)), get_key(a))>>,
                                     <<e, Head(refs)>>),
             a, e, Tail(refs))

remove_related(T, R, a, e) == remove_related_loop(T, R, a, e, referers(R, Ident(a), e))

(***************************************************************************)
(* The relation model: the records the operations are called with.         *)
(***************************************************************************)
Str_a == <<97>>

Entity(s, k, p) == [store |-> s, key |-> k, prop |-> p]

RelKeys == {0, 1}

RelE1 == {Entity("entity_1", U32(n), 1) : n \in RelKeys}

RelE2 == {Entity("entity_2", Str_a, p) : p \in 1..MaxProp}

RelE3 == {Entity("entity_3", U32(0), 1)}

RelC1 == {Entity("child_entity_1", <<Str_a, U32(0)>>, 1)}

RelC2 == {Entity("child_entity_2", <<U32(0), U32(0)>>, 1)}

RelRecords == RelE1 \cup RelE2 \cup RelE3 \cup RelC1 \cup RelC2

RelIdents == {Ident(e) : e \in RelRecords}

Present(T, rec) == rec[2] \in DOMAIN get_tree(T, rec[1])

\* the last completed operation: its name, the record it was called on, its
\* result, and for remove the deletion plan and the free edges it unlinked
OpRemove(rec, res, plan, unlink) ==
    [op |-> "remove", rec |-> rec, res |-> res, plan |-> plan, unlink |-> unlink,
     val |-> None, prev |-> None]

Op(op, rec, res) ==
    [op |-> op, rec |-> rec, res |-> res, plan |-> <<>>, unlink |-> {}, val |-> None,
     prev |-> None]

\* an operation of the store model with the record it wrote
OpVal(op, rec, res, val) ==
    [op |-> op, rec |-> rec, res |-> res, plan |-> <<>>, unlink |-> {}, val |-> val,
     prev |-> None]

\* a save of the store model with the record it wrote and what Tree::insert
\* found under the key
OpSave(rec, val, prev) ==
    [op |-> "save", rec |-> rec, res |-> "ok", plan |-> <<>>, unlink |-> {}, val |-> val,
     prev |-> prev]

EmptyTrees == [s \in StoreNames |-> EmptyTree]

\* FamilyDescriptor of a store: its name, its sibling stores and its child
\* stores, each with the policy that applies when a record of it is deleted
FamilyDescriptor(s, siblings, children) ==
    [tree_name |-> s, sibling_trees |-> siblings, child_trees |-> children]

\* the descriptors stored once every entity of the schema is registered
\* (set_up of the tests)
Registered == [s \in StoreNames |-> FamilyDescriptor(s, sibling_trees(s), child_trees(s))]

\* the concurrent callers of the store: none is inside a call
Callers == {1, 2}

\* pc: where the caller stands; next_key, rec: the locals of its call; alone:
\* no other caller was inside a call during this one; got: the keys its
\* completed save_next calls returned
NoCallers ==
    [c \in Callers |->
        [pc |-> "idle", next_key |-> None, rec |-> None, alone |-> TRUE, got |-> {}]]

EmptyRelations == [h \in {} |-> <<>>]

Init ==
    /\ trees = EmptyTrees
    /\ relations = EmptyRelations
    /\ last = Op("open", NoRec, "ok")
    /\ exported = <<>>
    /\ overflow_checks = FALSE
    /\ walk = NoWalk
    /\ families = Registered
    /\ callers = NoCallers

Save(e) ==
    /\ trees' = save(trees, e)
    /\ last' = Op("save", Ident(e), "ok")
    /\ UNCHANGED <<families, callers, relations, exported, overflow_checks, walk>>

CreateRelation(a, b, pa, pb) ==
    /\ Present(trees, Ident(a))
    /\ Present(trees, Ident(b))
    /\ relations' = create_relation(relations, a, b, pa, pb)
    /\ last' = Op("create_relation", Ident(a), "ok")
    /\ UNCHANGED <<families, callers, trees, exported, overflow_checks, walk>>

RemoveRelation(a, b) ==
    /\ Half(Ident(a), Ident(b)) \in DOMAIN relations
    /\ relations' = remove_relation(relations, a, b)
    /\ last' = Op("remove_relation", Ident(a), "ok")
    /\ UNCHANGED <<families, callers, trees, exported, overflow_checks, walk>>

RemoveRelationWithKey(a, e, other) ==
    /\ Half(Ident(a), <<e, other>>) \in DOMAIN relations
    /\ relations' = remove_relation_with_key(relations, a, e, other)
    /\ last' = Op("remove_relation_with_key", Ident(a), "ok")
    /\ UNCHANGED <<families, callers, trees, exported, overflow_checks, walk>>

RemoveRelated(a, e) ==
    /\ has_related(relations, Ident(a), e)
    /\ LET r == remove_related(trees, relations, a, e)
       IN /\ trees' = r.trees
          /\ relations' = r.relations
    /\ last' = [OpVal("remove_related", Ident(a), "ok", Some(e))
                   EXCEPT !.plan = LET refs == referers(relations, Ident(a), e)
                                   IN [i \in 1..Len(refs) |-> <<e, refs[i]>>]]
    /\ UNCHANGED <<families, callers, exported, overflow_checks, walk>>

Remove(root) ==
    /\ LET r == facade_remove(trees, relations, root)
       IN /\ trees' = r.trees
          /\ relations' = r.relations
          /\ last' = OpRemove(root, r.res, r.plan, r.unlink)
    /\ UNCHANGED <<families, callers, exported, overflow_checks, walk>>

Next ==
    \/ \E e \in RelRecords : Save(e)
    \/ \E a \in RelE1, b \in RelE2, pa \in Policies, pb \in Policies :
           CreateRelation(a, b, pa, pb)
    \/ \E a \in RelE1, b \in RelE2 : RemoveRelation(a, b)
    \/ \E a \in RelE2, b \in RelE1 : RemoveRelationWithKey(a, "entity_1", KeyBytes(b))
    \/ \E a \in RelE1 : RemoveRelated(a, "entity_2")
    \/ \E root \in RelIdents : Remove(root)

Spec == Init /\ [][Next]_vars

(***************************************************************************)
(* The traversal model: remove(root) taken one edge at a time, on graphs   *)
(* with cycles (entity_1 - entity_2 - entity_1 - entity_1) and a record    *)
(* related to itself.  The call is synchronous: once begun it runs to its  *)
(* end before any other operation.                                         *)
(***************************************************************************)
WalkE1 == RelE1

WalkE2 == {Entity("entity_2", Str_a, 1)}

WalkRecords == WalkE1 \cup WalkE2 \cup RelC1

WalkPolicyPairs == {<<"Cascade", "Cascade">>, <<"Cascade", "Error">>}

WalkPairs ==
    {<<a, b>> : a \in WalkE1, b \in WalkE2} \cup
    {<<Entity("entity_1", U32(0), 1), b>> : b \in WalkE1}

WalkSave(e) == ~walk.active /\ Save(e)

WalkCreateRelation(a, b, pa, pb) == ~walk.active /\ CreateRelation(a, b, pa, pb)

BeginRemove(root) ==
    /\ ~walk.active
    /\ walk' = WalkInit(trees, relations, root)
    /\ last' = Op("begin_remove", root, "ok")
    /\ UNCHANGED <<families, callers, trees, relations, exported, overflow_checks>>

StepRemove ==
    /\ walk.active
    /\ ~WalkDone(walk)
    /\ walk' = WalkStep(trees, relations, walk)
    /\ UNCHANGED <<families, callers, trees, relations, last, exported, overflow_checks>>

EndRemove ==
    /\ walk.active
    /\ WalkDone(walk)
    /\ LET r == Finalize(trees, relations, walk)
       IN /\ trees' = r.trees
          /\ relations' = r.relations
          /\ last' = OpRemove(walk.root, r.res, r.plan, r.unlink)
    /\ walk' = NoWalk
    /\ UNCHANGED <<families, callers, exported, overflow_checks>>

NextWalk ==
    \/ \E e \in WalkRecords : WalkSave(e)
    \/ \E p \in WalkPairs, pp \in WalkPolicyPairs : WalkCreateRelation(p[1], p[2], pp[1], pp[2])
    \/ \E root \in {Ident(e) : e \in WalkRecords} : BeginRemove(root)
    \/ StepRemove
    \/ EndRemove

SpecWalk == Init /\ [][NextWalk]_vars /\ WF_vars(StepRemove) /\ WF_vars(EndRemove)

(***************************************************************************)
(* JSON import/export (src/src/import_export.rs).  A record's relation     *)
(* descriptor (EntityRelations) lists its outgoing halves with their       *)
(* policies; Relation::save_descriptor writes the descriptor of that one   *)
(* record (spec.md 4.6).                                                   *)
(***************************************************************************)
\* Relation::get_descriptor_with_key_and_tree_name
get_descriptor(R, s, kb) ==
    LET hs == Outgoing(R, <<s, kb>>)
    IN [related_entities |-> [i \in 1..Len(hs) |-> <<hs[i][3], hs[i][4], R[hs[i]]>>]]

\* Relation::save_descriptor
RECURSIVE insert_halves(_, _, _)
insert_halves(R, a, es) ==
    IF es = <<>> THEN R
    ELSE insert_halves(rel_insert(R, Half(a, <<Head(es)[1], Head(es)[2]>>), Head(es)[3]),
                       a, Tail(es))

save_descriptor(R, e, d) ==
    insert_halves(rel_remove(R, {h \in DOMAIN R : SideA(h) = Ident(e)}),
                  Ident(e), d.related_entities)

\* mutant: every record is exported with a descriptor, empty or not
JsonWrapper_from_always_some(R, source_vec) ==
    [i \in 1..Len(source_vec) |->
        <<source_vec[i],
          Some(get_descriptor(R, tree_name(source_vec[i]),
                              as_bytes(KeyType(tree_name(source_vec[i])),
                                       get_key(source_vec[i]))))>>]

\* JsonWrapper::from
JsonWrapper_from(R, source_vec) ==
    [i \in 1..Len(source_vec) |->
        LET source == source_vec[i]
            rels == get_descriptor(R, tree_name(source),
                                   as_bytes(KeyType(tree_name(source)), get_key(source)))
        IN IF Len(rels.related_entities) > 0
           THEN <<source, Some(rels)>>
           ELSE <<source, None>>]

\* JsonWrapper::save
RECURSIVE JsonWrapper_save(_, _, _)
JsonWrapper_save(T, R, w) ==
    IF w = <<>> THEN [trees |-> T, relations |-> R]
    ELSE LET entity == Head(w)[1]
             rels == Head(w)[2]
         IN JsonWrapper_save(save(T, entity),
                             IF rels # None THEN save_descriptor(R, entity, rels[1]) ELSE R,
                             Tail(w))

Export(s) ==
    /\ exported' = JsonWrapper_from(relations, get_all(trees, s))
    /\ last' = Op("export", <<s, <<>>>>, "ok")
    /\ UNCHANGED <<families, callers, trees, relations, overflow_checks, walk>>

Import ==
    /\ exported # <<>>
    /\ LET r == JsonWrapper_save(trees, relations, exported)
       IN /\ trees' = r.trees
          /\ relations' = r.relations
    /\ last' = Op("import", NoRec, "ok")
    /\ UNCHANGED <<families, callers, exported, overflow_checks, walk>>

\* the import/export model: one entity_1, one entity_2 and their relation
ImpE1 == Entity("entity_1", U32(0), 1)

ImpE2 == Entity("entity_2", Str_a, 1)

NextImport ==
    \/ \E e \in {ImpE1, ImpE2} : Save(e)
    \/ \E pa \in Policies, pb \in Policies : CreateRelation(ImpE1, ImpE2, pa, pb)
    \/ RemoveRelation(ImpE1, ImpE2)
    \/ \E root \in {Ident(ImpE1), Ident(ImpE2)} : Remove(root)
    \/ Export("entity_1")
    \/ Import

SpecImport == Init /\ [][NextImport]_vars

(***************************************************************************)
(* The store model: the Entity Store operations on the auto-increment      *)
(* store entity_1 (keys 0..MaxKey and u32::MAX), on the parent "a" of      *)
(* entity_2 and on the children of the parents "a" and "ab" in             *)
(* child_entity_1.  The build is with or without overflow checks.          *)
(***************************************************************************)
Str_ab == <<97, 98>>

StoreKeys == {U32(n) : n \in 0..MaxKey} \cup {U32Max}

StoreProps == {1, 2}

StoreE1 == {Entity("entity_1", k, p) : k \in StoreKeys, p \in StoreProps}

StoreE2 == {Entity("entity_2", Str_a, 1)}

StoreParents == {Str_a, Str_ab}

StoreC1 == {Entity("child_entity_1", <<s, U32(0)>>, 1) : s \in StoreParents}

StoreRecords == StoreE1 \cup StoreE2 \cup StoreC1

\* one record per key: what remove, update and get are called with
StoreKeyed == {e \in StoreRecords : e.prop = 1}

InitStore ==
    /\ trees = EmptyTrees
    /\ relations = EmptyRelations
    /\ last = Op("open", NoRec, "ok")
    /\ exported = <<>>
    /\ overflow_checks \in BOOLEAN
    /\ walk = NoWalk
    /\ families = Registered
    /\ callers = NoCallers

StoreSave(e) ==
    /\ trees' = save(trees, e)
    /\ last' = OpSave(Ident(e), Some(e), get(trees, tree_name(e), get_key(e)))
    /\ UNCHANGED <<families, callers, relations, exported, overflow_checks, walk>>

\* e.save_next(db); the call is taken while its key stays among StoreKeys
SaveNext(e) ==
    LET r == save_next(trees, e, overflow_checks)
    IN /\ r.panic \/ r.key \in StoreKeys
       /\ trees' = r.trees
       /\ last' = IF r.panic
                    THEN OpVal("save_next", NoRec, "panic", None)
                  ELSE OpVal("save_next", <<tree_name(e), as_bytes_u32(r.key)>>, "ok",
                             Some(set_key(e, r.key)))
       /\ UNCHANGED <<families, callers, relations, exported, overflow_checks, walk>>

\* the Entity Store primitive remove(key)
StoreRemove(e) ==
    /\ trees' = remove(trees, tree_name(e), get_key(e))
    /\ last' = [OpVal("remove_primitive", Ident(e), "ok", None)
                   EXCEPT !.prev = get(trees, tree_name(e), get_key(e))]
    /\ UNCHANGED <<families, callers, relations, exported, overflow_checks, walk>>

Update(e, f) ==
    /\ trees' = update(trees, tree_name(e), get_key(e), f)
    /\ last' = OpVal("update", Ident(e), "ok", Some(f))
    /\ UNCHANGED <<families, callers, relations, exported, overflow_checks, walk>>

NextStore ==
    \/ \E e \in StoreRecords : StoreSave(e)
    \/ \E p \in StoreProps : SaveNext(Entity("entity_1", U32(0), p))
    \/ \E e \in StoreKeyed : StoreRemove(e)
    \/ \E e \in StoreKeyed, f \in StoreProps : Update(e, SetProp(f))
    \/ \E e \in StoreE2 : Remove(Ident(e))

SpecStore == InitStore /\ [][NextStore]_vars

(***************************************************************************)
(* The concurrent model: two callers of save_next on entity_1 and plain    *)
(* saves.  save_next is two store operations, the read of the last key     *)
(* (get_next_key) and the insert (save); other callers run in between.     *)
(***************************************************************************)
ConcRecords == {Entity("entity_1", k, 1) : k \in StoreKeys}

Others(c) == Callers \ {c}

\* let next_key = Self::get_next_key(db)?;
BeginSaveNext(c, e) ==
    LET n == get_next_key(trees, tree_name(e), overflow_checks)
        lone == \A d \in Others(c) : callers[d].pc = "idle"
    IN /\ callers[c].pc = "idle"
       /\ n.panic \/ n.key \in StoreKeys
       /\ IF n.panic
            THEN /\ last' = OpVal("save_next", NoRec, "panic", None)
                 /\ UNCHANGED callers
          ELSE /\ callers' = [d \in Callers |->
                     IF d = c
                       THEN [callers[c] EXCEPT !.pc = "write", !.next_key = Some(n.key),
                                               !.rec = Some(e), !.alone = lone]
                     ELSE IF callers[d].pc = "idle" THEN callers[d]
                     ELSE [callers[d] EXCEPT !.alone = FALSE]]
               /\ last' = Op("get_next_key", NoRec, "ok")
       /\ UNCHANGED <<trees, relations, exported, overflow_checks, walk, families>>

\* self.set_key(&next_key); self.save(db)?; Ok(next_key)
EndSaveNext(c) ==
    /\ callers[c].pc = "write"
    /\ LET key == callers[c].next_key[1]
           e == set_key(callers[c].rec[1], key)
       IN /\ trees' = save(trees, e)
          /\ last' = OpVal("save_next", Ident(e), "ok", Some(e))
          /\ callers' = [callers EXCEPT ![c] =
                 [pc |-> "idle", next_key |-> None, rec |-> None, alone |-> TRUE,
                  got |-> callers[c].got \cup {key}]]
    /\ UNCHANGED <<relations, exported, overflow_checks, walk, families>>

NextConc ==
    \/ \E e \in ConcRecords : StoreSave(e)
    \/ \E c \in Callers, p \in StoreProps : BeginSaveNext(c, Entity("entity_1", U32(0), p))
    \/ \E c \in Callers : EndSaveNext(c)

SpecConc == InitStore /\ [][NextConc]_vars

(***************************************************************************)
(* The codec model: as_bytes applied to two keys of one shape, u32 or      *)
(* (u32, u32), drawn from the small keys and from the values around the    *)
(* byte and limb boundaries.                                               *)
(***************************************************************************)
CodecU32 ==
    {U32(n) : n \in 0..MaxKey} \cup
    {U32(255), U32(256), U32(Limb - 1), U32(Limb), U32(256 * Limb), U32Max}

CodecComponents == {U32(0), U32(255), U32(256), U32Max}

CodecU32U32 == CodecComponents \X CodecComponents

EncodeU32(a, b) ==
    /\ last' = OpVal("as_bytes_u32", <<a, b>>, "ok",
                     <<as_bytes("u32", a), as_bytes("u32", b)>>)
    /\ UNCHANGED <<trees, relations, exported, overflow_checks, walk, families, callers>>

EncodeU32U32(a, b) ==
    /\ last' = OpVal("as_bytes_u32_u32", <<a, b>>, "ok",
                     <<as_bytes("u32_u32", a), as_bytes("u32_u32", b)>>)
    /\ UNCHANGED <<trees, relations, exported, overflow_checks, walk, families, callers>>

NextCodec ==
    \/ \E a \in CodecU32, b \in CodecU32 : EncodeU32(a, b)
    \/ \E a \in CodecU32U32, b \in CodecU32U32 : EncodeU32U32(a, b)

SpecCodec == Init /\ [][NextCodec]_vars

(***************************************************************************)
(* The registration model (spec.md 4.4): the family-descriptor catalog     *)
(* starts empty; every store is registered, possibly several times, with   *)
(* its declared lists, with none, or with one more sibling than declared.  *)
(***************************************************************************)
EmptyFamilies == [s \in {} |-> <<>>]

\* FamilyDescriptor::exists
FamilyDescriptor_exists(F, s) == s \in DOMAIN F

\* FamilyDescriptor::get
FamilyDescriptor_get(F, s) == IF s \in DOMAIN F THEN Some(F[s]) ELSE None

\* two descriptors declare the same set of siblings and of children
SameFamily(d, e) ==
    /\ SeqToSet(d.sibling_trees) = SeqToSet(e.sibling_trees)
    /\ SeqToSet(d.child_trees) = SeqToSet(e.child_trees)

\* mutant: a second registration replaces the stored descriptor
register_overwrites(F, d) ==
    [res |-> "ok",
     families |-> [s \in DOMAIN F \cup {d.tree_name} |-> IF s = d.tree_name THEN d ELSE F[s]]]

\* register(store_name, siblings, children): the first registration stores
\* the descriptor, the same set again is accepted, another set is a schema
\* error
register(F, d) ==
    IF d.tree_name \notin DOMAIN F
      THEN [res |-> "ok",
            families |-> [s \in DOMAIN F \cup {d.tree_name} |->
                             IF s = d.tree_name THEN d ELSE F[s]]]
    ELSE IF SameFamily(F[d.tree_name], d)
      THEN [res |-> "ok", families |-> F]
    ELSE [res |-> "schema_error", families |-> F]

\* the descriptors a store is registered with
Declarations(s) ==
    {FamilyDescriptor(s, sibling_trees(s), child_trees(s)),
     FamilyDescriptor(s, <<>>, <<>>),
     FamilyDescriptor(s, sibling_trees(s) \o << <<"entity_2", "BreakLink">> >>, child_trees(s))}

InitFamily ==
    /\ trees = EmptyTrees
    /\ relations = EmptyRelations
    /\ last = Op("open", NoRec, "ok")
    /\ exported = <<>>
    /\ overflow_checks = FALSE
    /\ walk = NoWalk
    /\ families = EmptyFamilies
    /\ callers = NoCallers

Register(d) ==
    /\ LET r == register(families, d)
       IN /\ families' = r.families
          /\ last' = OpVal("register", <<d.tree_name, <<>>>>, r.res, Some(d))
    /\ UNCHANGED <<trees, relations, exported, overflow_checks, walk, callers>>

NextFamily == \E s \in StoreNames : \E d \in Declarations(s) : Register(d)

SpecFamily == InitFamily /\ [][NextFamily]_vars

(***************************************************************************)
(* The sibling model (spec.md 4.3): entity_1 records are saved and         *)
(* save_sibling stores a record of the sibling store entity_3 that comes   *)
(* with any key.                                                           *)
(***************************************************************************)
SibE3 == {Entity("entity_3", k, 1) : k \in StoreKeys}

\* s.save_sibling(&mut t): t.set_key(&s.get_key()); t.save(db)
save_sibling(T, s, t) ==
    LET sibling == set_key(t, get_key(s))
    IN [trees |-> save(T, sibling), sibling |-> sibling]

SaveSibling(s, t) ==
    /\ LET r == save_sibling(trees, s, t)
       IN /\ trees' = r.trees
          /\ last' = [OpVal("save_sibling", Ident(s), "ok", Some(r.sibling))
                         EXCEPT !.prev = Some(t)]
    /\ UNCHANGED <<relations, exported, overflow_checks, walk, families, callers>>

NextSibling ==
    \/ \E e \in StoreE1 : StoreSave(e)
    \/ \E p \in StoreProps : SaveNext(Entity("entity_1", U32(0), p))
    \/ \E s \in StoreE1, t \in SibE3 : SaveSibling(s, t)

SpecSibling == Init /\ [][NextSibling]_vars

(***************************************************************************)
(* The scan model: entity_2 records under the keys "a", "ab" and "b" are   *)
(* saved and removed, and the windowed scans are called with small and     *)
(* with the largest skip and take, with and without a prefix.              *)
(***************************************************************************)
Str_b == <<98>>

ScanKeys == {Str_a, Str_ab, Str_b}

ScanRecords == {Entity("entity_2", k, p) : k \in ScanKeys, p \in StoreProps}

ScanSizes == {Usize(n) : n \in 0..2} \cup {UsizeMax}

ScanPrefixes == {None, Some(Str_a), Some(Str_b)}

ScanResult(op, s, start, offset, prefix, r) ==
    OpVal(op, <<s, <<start, offset, prefix>>>>,
          IF r.panic THEN "panic" ELSE "ok",
          IF r.panic THEN None ELSE Some(r.result))

GetFromStart(s, start, offset, prefix) ==
    /\ last' = ScanResult("get_from_start", s, start, offset, prefix,
                          get_from_start(trees, s, start, offset, prefix, overflow_checks))
    /\ UNCHANGED <<trees, relations, exported, overflow_checks, walk, families, callers>>

GetFromEnd(s, start, offset, prefix) ==
    /\ last' = ScanResult("get_from_end", s, start, offset, prefix,
                          get_from_end(trees, s, start, offset, prefix, overflow_checks))
    /\ UNCHANGED <<trees, relations, exported, overflow_checks, walk, families, callers>>

NextScan ==
    \/ \E e \in ScanRecords : StoreSave(e)
    \/ \E e \in ScanRecords : StoreRemove(e)
    \/ \E start \in ScanSizes, offset \in ScanSizes, prefix \in ScanPrefixes :
           GetFromStart("entity_2", start, offset, prefix)
    \/ \E start \in ScanSizes, offset \in ScanSizes, prefix \in ScanPrefixes :
           GetFromEnd("entity_2", start, offset, prefix)

SpecScan == InitStore /\ [][NextScan]_vars

(***************************************************************************)
(* The related-records model: entity_1 0 is related to itself, to          *)
(* entity_1 1 and to entity_2 "a", entity_1 1 to entity_2 "a";             *)
(* remove_related is called on each record for each store, and entity_1    *)
(* is exported and imported.                                               *)
(***************************************************************************)
RelatedA0 == Entity("entity_1", U32(0), 1)

RelatedA1 == Entity("entity_1", U32(1), 1)

RelatedB == Entity("entity_2", Str_a, 1)

RelatedRecords == {RelatedA0, RelatedA1, RelatedB}

RelatedPairs ==
    {<<RelatedA0, RelatedA0>>, <<RelatedA0, RelatedA1>>, <<RelatedA0, RelatedB>>,
     <<RelatedA1, RelatedB>>}

NextRelated ==
    \/ \E e \in RelatedRecords : Save(e)
    \/ \E p \in RelatedPairs : CreateRelation(p[1], p[2], "Cascade", "Error")
    \/ \E a \in RelatedRecords, e \in {"entity_1", "entity_2"} : RemoveRelated(a, e)
    \/ Export("entity_1")
    \/ Import

SpecRelated == Init /\ [][NextRelated]_vars

(***************************************************************************)
(* The keyed model: entity_1 records under the keys 0 and 1 are saved,     *)
(* updated, filtered, removed, exported and imported; the closures set the *)
(* property or the key field of the record they are given.                 *)
(***************************************************************************)
KeyedKeys == {U32(0), U32(1)}

KeyedRecords == {Entity("entity_1", k, p) : k \in KeyedKeys, p \in StoreProps}

KeyedClosures == {SetProp(p) : p \in StoreProps} \cup {SetKey(k) : k \in KeyedKeys}

FilterRemove(s, f) ==
    /\ LET r == filter_remove(trees, s, f)
       IN /\ trees' = r.trees
          /\ last' = OpVal("filter_remove", <<s, <<f>>>>, "ok", Some(r.res))
    /\ UNCHANGED <<relations, exported, overflow_checks, walk, families, callers>>

FilterUpdate(s, filter, modifier) ==
    /\ trees' = filter_update(trees, s, filter, modifier)
    /\ last' = OpVal("filter_update", <<s, <<filter, modifier>>>>, "ok", None)
    /\ UNCHANGED <<relations, exported, overflow_checks, walk, families, callers>>

ExportJson(s) ==
    /\ exported' = export_json(trees, s)
    /\ last' = Op("export_json", <<s, <<>>>>, "ok")
    /\ UNCHANGED <<trees, relations, overflow_checks, walk, families, callers>>

ImportJson ==
    /\ exported # <<>>
    /\ trees' = import_json(trees, exported)
    /\ last' = Op("import_json", NoRec, "ok")
    /\ UNCHANGED <<relations, exported, overflow_checks, walk, families, callers>>

NextKeyed ==
    \/ \E e \in KeyedRecords : StoreSave(e)
    \/ \E p \in StoreProps : SaveNext(Entity("entity_1", U32(0), p))
    \/ \E e \in KeyedRecords : StoreRemove(e)
    \/ \E e \in KeyedRecords, f \in KeyedClosures : Update(e, f)
    \/ \E f \in KeyedClosures : FilterRemove("entity_1", f)
    \/ \E f \in KeyedClosures, m \in KeyedClosures : FilterUpdate("entity_1", f, m)
    \/ ExportJson("entity_1")
    \/ ImportJson

SpecKeyed == Init /\ [][NextKeyed]_vars

(***************************************************************************)
(* The derive macro's key-field resolution                                 *)
(* (src/reindeer-macros/src/entity_data.rs).  A declaration is the list of *)
(* the struct's named fields, <<name, type>>, and the optional id argument *)
(* of the entity attribute, a string given as the list of the identifiers  *)
(* in it.                                                                  *)
(***************************************************************************)
ID_PARSE_ERROR == "Could not parse id parameter"

Error(msg, arg) == [msg |-> msg, arg |-> arg]

\* EntityData::default() after parse_fields
EntityData(fields) == [id |-> None, id_type |-> None, fields |-> fields, errors |-> <<>>]

\* fields.iter().find(|e| e.1.to_string() == name)
find_field(fields, name) ==
    LET hits == {i \in 1..Len(fields) : fields[i][1] = name}
    IN IF hits = {} THEN None ELSE Some(fields[CHOOSE i \in hits : \A j \in hits : i <= j])

\* EntityData::parse_id_attr: the string must parse as one identifier
parse_id_attr(d, str) ==
    IF Len(str) = 1 THEN [d EXCEPT !.id = Some(str[1])]
    ELSE [d EXCEPT !.errors = Append(@, Error(ID_PARSE_ERROR, ""))]

\* mutant: a missing field is not reported
check_id_silent(d, ident) ==
    LET f == find_field(d.fields, ident)
    IN IF f # None THEN [d EXCEPT !.id_type = Some(f[1][2])] ELSE d

\* EntityData::check_id
check_id(d, ident) ==
    LET f == find_field(d.fields, ident)
    IN IF f # None THEN [d EXCEPT !.id_type = Some(f[1][2])]
       ELSE [d EXCEPT !.errors = Append(@, Error("Cannot find referenced field", ident))]

\* EntityData::check
check(d) ==
    IF d.id = None
      THEN LET id_field == find_field(d.fields, "id")
           IN IF id_field # None
                THEN [d EXCEPT !.id = Some(id_field[1][1]), !.id_type = Some(id_field[1][2])]
              ELSE [d EXCEPT !.errors = Append(@, Error("Missing ID specification", ""))]
    ELSE check_id(d, d.id[1])

\* EntityData::parse, for the id argument and the fields
EntityData_parse(id_attr, fields) ==
    check(IF id_attr # None THEN parse_id_attr(EntityData(fields), id_attr[1])
          ELSE EntityData(fields))

MacroNames == {"id", "key", "name"}

MacroTypes == {"u32", "String"}

MacroFields == UNION {[1..n -> MacroNames \X MacroTypes] : n \in 0..MaxFields}

\* no id, id = "", id = "<name>" and id = "id, key"
MacroIds ==
    {None, Some(<<>>), Some(<<"id", "key">>)} \cup {Some(<<n>>) : n \in MacroNames}

Parse(id_attr, fields) ==
    /\ LET d == EntityData_parse(id_attr, fields)
       IN last' = OpVal("parse", <<"", <<id_attr, fields>>>>,
                        IF d.errors = <<>> THEN "ok" ELSE "rejected", Some(d))
    /\ UNCHANGED <<trees, relations, exported, overflow_checks, walk, families, callers>>

NextMacro == \E id_attr \in MacroIds, fields \in MacroFields : Parse(id_attr, fields)

SpecMacro == Init /\ [][NextMacro]_vars

(***************************************************************************)
(* The cascade model: the parents "a" and "ab" of entity_2 and their       *)
(* children in child_entity_1 are saved; a parent is removed (Cascade      *)
(* child policy) and the children are removed by prefix.                   *)
(***************************************************************************)
CascadeParents == {Entity("entity_2", s, 1) : s \in StoreParents}

CascadeChildren ==
    {Entity("child_entity_1", <<s, U32(0)>>, p) : s \in StoreParents, p \in StoreProps}

\* C::remove_prefixed(&p.key) for a parent key p
RemovePrefixed(s, p) ==
    /\ trees' = remove_prefixed(trees, s, as_bytes("String", p))
    /\ last' = Op("remove_prefixed", <<s, as_bytes("String", p)>>, "ok")
    /\ UNCHANGED <<relations, exported, overflow_checks, walk, families, callers>>

NextCascade ==
    \/ \E e \in CascadeParents \cup CascadeChildren : StoreSave(e)
    \/ \E e \in CascadeParents : Remove(Ident(e))
    \/ \E p \in StoreParents : RemovePrefixed("child_entity_1", p)

SpecCascade == Init /\ [][NextCascade]_vars

(***************************************************************************)
(* The atomicity model: two callers act on key 0 of entity_1 at the same   *)
(* time, one with update(0, f), the other with update(0, g) or remove(0).  *)
(* update is Tree::fetch_and_update: it reads the entry, applies the       *)
(* closure and swaps the result in if the entry is still the one it read,  *)
(* and starts over if it is not.  remove is one step of the tree.  Records *)
(* are saved while no call is under way.                                   *)
(***************************************************************************)
AtomicKey == U32(0)

AtomicRecords == {Entity("entity_1", AtomicKey, p) : p \in StoreProps}

AtomicUpdates == {[op |-> "update", f |-> AddProp(n)] : n \in {1, 2}}

AtomicRemove == [op |-> "remove", f |-> AddProp(0)]

\* a caller: where it is, its call, the entry it read, the entry under the
\* key when the calls began and whether it had to start over
IdleCaller == [pc |-> "idle", call |-> AtomicRemove, seen |-> None, initial |-> None,
               retried |-> FALSE]

InitAtomic ==
    /\ trees = EmptyTrees
    /\ relations = EmptyRelations
    /\ last = Op("open", NoRec, "ok")
    /\ exported = <<>>
    /\ overflow_checks = FALSE
    /\ walk = NoWalk
    /\ families = Registered
    /\ callers = [c \in Callers |-> IdleCaller]

AllIdle == \A c \in Callers : callers[c].pc = "idle"

AllDone == \A c \in Callers : callers[c].pc = "done"

AtomicSave(e) == AllIdle /\ StoreSave(e) /\ callers' = callers

\* both calls are made; the property the closures add to starts within
\* StoreProps, which keeps it bounded
BeginCalls(a, b) ==
    /\ AllIdle
    /\ \A e \in SeqToSet(get_all(trees, "entity_1")) : e.prop \in StoreProps
    /\ LET v == tree_get(get_tree(trees, "entity_1"), as_bytes_u32(AtomicKey))
           begin(call) == [IdleCaller EXCEPT !.pc = "call", !.call = call, !.initial = v]
       IN callers' = [c \in Callers |-> IF c = 1 THEN begin(a) ELSE begin(b)]
    /\ UNCHANGED <<trees, relations, last, exported, overflow_checks, walk, families>>

\* fetch_and_update reads the current entry
Fetch(c) ==
    /\ callers[c].pc = "call" /\ callers[c].call.op = "update"
    /\ callers' = [callers EXCEPT ![c].pc = "swap",
                                  ![c].seen = tree_get(get_tree(trees, "entity_1"),
                                                       as_bytes_u32(AtomicKey))]
    /\ UNCHANGED <<trees, relations, last, exported, overflow_checks, walk, families>>

\* fetch_and_update swaps in what the closure made of it, or starts over
Swap(c) ==
    /\ callers[c].pc = "swap"
    /\ LET r == compare_and_swap(get_tree(trees, "entity_1"), as_bytes_u32(AtomicKey),
                                 callers[c].seen,
                                 update_closure(callers[c].call.f, callers[c].seen))
       IN /\ trees' = [trees EXCEPT !["entity_1"] = r.tree]
          /\ callers' = IF r.ok THEN [callers EXCEPT ![c].pc = "done"]
                        ELSE [callers EXCEPT ![c].pc = "call", ![c].retried = TRUE]
    /\ UNCHANGED <<relations, last, exported, overflow_checks, walk, families>>

\* Entity::remove, one Tree::remove
RemoveCall(c) ==
    /\ callers[c].pc = "call" /\ callers[c].call.op = "remove"
    /\ trees' = remove(trees, "entity_1", AtomicKey)
    /\ callers' = [callers EXCEPT ![c].pc = "done"]
    /\ UNCHANGED <<relations, last, exported, overflow_checks, walk, families>>

\* both calls have returned
Return ==
    /\ AllDone
    /\ callers' = [c \in Callers |-> IdleCaller]
    /\ UNCHANGED <<trees, relations, last, exported, overflow_checks, walk, families>>

NextAtomic ==
    \/ \E e \in AtomicRecords : AtomicSave(e)
    \/ \E a \in AtomicUpdates, b \in AtomicUpdates \cup {AtomicRemove} : BeginCalls(a, b)
    \/ \E c \in Callers : Fetch(c)
    \/ \E c \in Callers : Swap(c)
    \/ \E c \in Callers : RemoveCall(c)
    \/ Return

SpecAtomic == InitAtomic /\ [][NextAtomic]_vars

(***************************************************************************)
(* The race model: remove(p) of an entity_3 record, whose children in      *)
(* child_entity_2 fall under the Error policy, taken one edge at a time    *)
(* while another caller saves records.  Caller 1 is the caller of remove:  *)
(* got holds the children of p that were stored when its planning phase    *)
(* read them.  Caller 2 is the caller of save: got holds the records it    *)
(* saved while the remove was under way.                                   *)
(***************************************************************************)
RaceParents == {Entity("entity_3", U32(n), 1) : n \in {0, 1}}

RaceChildren ==
    {Entity("child_entity_2", <<U32(0), U32(0)>>, 1),
     Entity("child_entity_2", <<U32(0), U32(1)>>, 1),
     Entity("child_entity_2", <<U32(1), U32(0)>>, 1)}

RaceRecords == RaceParents \cup RaceChildren

\* the records of store s stored as children of rec
ChildIdents(T, rec, s) == {Ident(c) : c \in SeqToSet(get_children(T, rec[2], s))}

\* save, at any time
RaceSave(e) ==
    /\ trees' = save(trees, e)
    /\ last' = Op("save", Ident(e), "ok")
    /\ callers' = IF walk.active THEN [callers EXCEPT ![2].got = @ \cup {Ident(e)}]
                  ELSE callers
    /\ UNCHANGED <<families, relations, exported, overflow_checks, walk>>

\* remove(root) begins: the planning phase reads the edges of root
RaceBeginRemove(root) ==
    /\ ~walk.active
    /\ walk' = WalkInit(trees, relations, root)
    /\ last' = Op("begin_remove", root, "ok")
    /\ callers' = [NoCallers EXCEPT ![1].got = ChildIdents(trees, root, "child_entity_2")]
    /\ UNCHANGED <<families, trees, relations, exported, overflow_checks>>

NextRace ==
    \/ \E e \in RaceRecords : RaceSave(e)
    \/ \E root \in {Ident(e) : e \in RaceRecords} : RaceBeginRemove(root)
    \/ StepRemove
    \/ EndRemove

SpecRace == Init /\ [][NextRace]_vars

(***************************************************************************)
(* Vocabulary of the claims: the relation graph of a database state, read  *)
(* off the stored records themselves.  An edge x -> y carries the policy   *)
(* that applies when x is deleted.                                         *)
(***************************************************************************)
AllIdents(T) == {<<s, k>> : s \in StoreNames, k \in {}} \cup
                UNION {{<<s, k>> : k \in DOMAIN T[s]} : s \in StoreNames}

ParentKeyType(c) ==
    CASE c = "child_entity_1" -> "String"
      [] c = "child_entity_2" -> "u32"

\* the children of x in store c: the records whose leading key component is x's key
ChildrenOf(T, x, c) ==
    {k \in DOMAIN T[c] : as_bytes(ParentKeyType(c), get_key(from_ivec(T[c][k]))[1]) = x[2]}

RelatedEdges(T, R, x) ==
    LET ss == sibling_trees(x[1])
        cs == child_trees(x[1])
    IN UNION {
         {[to |-> <<ss[i][1], x[2]>>, policy |-> ss[i][2]] :
             i \in {j \in 1..Len(ss) : x[2] \in DOMAIN T[ss[j][1]]}},
         UNION {{[to |-> <<cs[i][1], k>>, policy |-> cs[i][2]] :
                    k \in ChildrenOf(T, x, cs[i][1])} : i \in 1..Len(cs)},
         {[to |-> SideB(h), policy |-> R[h][1]] : h \in {g \in DOMAIN R : SideA(g) = x}} }

RECURSIVE CascadeFrom(_, _, _)
CascadeFrom(T, R, S) ==
    LET S2 == S \cup {e.to : e \in {d \in UNION {RelatedEdges(T, R, x) : x \in S} :
                                      d.policy = "Cascade"}}
    IN IF S2 = S THEN S ELSE CascadeFrom(T, R, S2)

\* root and the records reachable from it through Cascade edges
CascadeClosure(T, R, root) == CascadeFrom(T, R, {root})

\* some record of the closure has an existing neighbour over an Error edge
ErrorNeighbour(T, R, root) ==
    \E x \in CascadeClosure(T, R, root) : \E e \in RelatedEdges(T, R, x) :
        e.policy = "Error" /\ Present(T, e.to)

\* ... and that neighbour is not itself in the closure
ErrorNeighbourOutside(T, R, root) ==
    \E x \in CascadeClosure(T, R, root) : \E e \in RelatedEdges(T, R, x) :
        e.policy = "Error" /\ Present(T, e.to) /\ e.to \notin CascadeClosure(T, R, root)

\* an Error edge leads out of the closure (to a record present or not)
ErrorEdgeLeaving(T, R, root) ==
    \E x \in CascadeClosure(T, R, root) : \E e \in RelatedEdges(T, R, x) :
        e.policy = "Error" /\ e.to \notin CascadeClosure(T, R, root)

\* the step is a completed remove(root)
IsRemove(root) == last'.op = "remove" /\ last'.rec = root

StoreUnchanged == trees' = trees /\ relations' = relations

PolicyPerSide(a, b) ==
    /\ (IsRemove(b) => (last'.res = "err" /\ StoreUnchanged))
    /\ (IsRemove(a) /\ ~ErrorEdgeLeaving(trees, relations, a))
           => (last'.res = "ok" /\ ~Present(trees', a) /\ ~Present(trees', b))

DeletedBy(root) == {root} \cup {x \in AllIdents(trees) : ~Present(trees', x)}

EntryUnchanged(x) ==
    /\ Present(trees', x) = Present(trees, x)
    /\ Present(trees, x) => trees'[x[1]][x[2]] = trees[x[1]][x[2]]

C4_HalvesPaired ==
    /\ \A h \in DOMAIN relations : Mirror(h) \in DOMAIN relations
    /\ \A a \in AllIdents(trees), b \in AllIdents(trees) :
           (b[2] \in SeqToSet(get_related(trees, relations, a, b[1])))
               <=> (a[2] \in SeqToSet(get_related(trees, relations, b, a[1])))

(***************************************************************************)
(* C7: remove terminates on every finite relation graph, cycles and        *)
(* self-relations included, and each record (store_name, key_bytes)        *)
(* enters the deletion plan at most once however many paths reach it.      *)
(***************************************************************************)
\* the records that have entered the plan: those planned and those whose
\* edges are being walked
Entered(st) ==
    LET fin == SelectSeq(st.stack, LAMBDA e : e.t = "finish")
    IN st.plan \o [i \in 1..Len(fin) |-> fin[i].to]

NoDuplicates(q) == \A i, j \in 1..Len(q) : q[i] = q[j] => i = j

Get(T, e) == get(T, tree_name(e), get_key(e))

\* the records of the store model by (store, key bytes)
IdentOf == [e \in StoreKeyed |-> Ident(e)]

\* the step saves a record under the key of e (save, or save_next assigning it)
SavesKey(e) == last'.op \in {"save", "save_next"} /\ last'.res = "ok" /\ last'.rec = IdentOf[e]

\* the step removes the key of e: the primitive, or a remove that plans it
RemovesKey(e) ==
    \/ last'.op = "remove_primitive" /\ last'.rec = IdentOf[e]
    \/ last'.op = "remove" /\ last'.res = "ok" /\ IdentOf[e] \in SeqToSet(last'.plan)

UpdatesKey(e) == last'.op = "update" /\ last'.rec = IdentOf[e]

\* get answers None exactly for the keys the tree does not hold
AbsentIsNone(T, e, g) == (IdentOf[e][2] \notin DOMAIN T[tree_name(e)]) <=> (g = None)

C8_Original ==
    /\ [](\A e \in StoreKeyed : AbsentIsNone(trees, e, Get(trees, e)))
    /\ [][\A e \in StoreKeyed :
             LET g == Get(trees', e)
             IN /\ SavesKey(e) => g = last'.val
                /\ RemovesKey(e) => g = None
                /\ ~(SavesKey(e) \/ RemovesKey(e)) => g = Get(trees, e)]_vars

(***************************************************************************)
(* C8 (amended): after save(r), get(r.key) returns Some(r) in every later  *)
(* state until that key is removed (directly or by cascade), saved again   *)
(* or rewritten by update; get on a key that is not present returns None.  *)
(***************************************************************************)
C8_SavedUntilRewritten ==
    /\ [](\A e \in StoreKeyed : AbsentIsNone(trees, e, Get(trees, e)))
    /\ [][\A e \in StoreKeyed :
             LET g == Get(trees', e)
             IN /\ SavesKey(e) => g = last'.val
                /\ RemovesKey(e) => g = None
                /\ ~(SavesKey(e) \/ RemovesKey(e) \/ UpdatesKey(e)) => g = Get(trees, e)]_vars

\* key 0 still returns the record saved under it after key 1 was saved over,
\* key u32::MAX was removed and a child was updated
C8_Witness ==
    /\ last.op = "update" /\ last.rec = Ident(Entity("child_entity_1", <<Str_a, U32(0)>>, 1))
    /\ Get(trees, Entity("entity_1", U32(0), 2)) = Some(Entity("entity_1", U32(0), 2))
    /\ Get(trees, Entity("entity_1", U32(1), 1)) = Some(Entity("entity_1", U32(1), 1))
    /\ Get(trees, Entity("entity_1", U32Max, 1)) = None
    /\ Get(trees, Entity("child_entity_1", <<Str_a, U32(0)>>, 1))
           = Some(Entity("child_entity_1", <<Str_a, U32(0)>>, 2))

(***************************************************************************)
(* C9 (as stated): for every parent p and child store C keyed by the tuple *)
(* (P.Key, X), p.get_children::<C>() equals                                *)
(* C.get_with_prefix(as_bytes(p.key)) and holds exactly the C records      *)
(* whose leading key component equals p.key: no record of another parent,  *)
(* no child of p missing.                                                  *)
(***************************************************************************)
C9_ChildrenExactlyOfParent ==
    \A p \in StoreParents :
        LET kb == as_bytes("String", p)
            children == get_children(trees, kb, "child_entity_1")
        IN /\ children = get_with_prefix(trees, "child_entity_1", as_bytes("String", p))
           /\ SeqToSet(children) =
                 {from_ivec(trees["child_entity_1"][k]) :
                      k \in ChildrenOf(trees, <<"entity_2", kb>>, "child_entity_1")}

(***************************************************************************)
(* C10 (as stated): get_next_key returns 0 on an empty store and otherwise *)
(* the numeric successor of the largest key present; save_next assigns     *)
(* that key to the record, saves it and returns it, and the record is      *)
(* retrievable under its assigned key.                                     *)
(***************************************************************************)
\* b = a + 1 as numbers
IsSuccessor(a, b) ==
    \/ a.lo + 1 < Limb /\ b = [hi |-> a.hi, lo |-> a.lo + 1]
    \/ a.lo + 1 = Limb /\ a.hi + 1 < Limb /\ b = [hi |-> a.hi + 1, lo |-> 0]

\* the largest key of the auto-increment store, over the decoded keys
IsLargest(t, v) ==
    /\ as_bytes_u32(v) \in DOMAIN t
    /\ \A k \in DOMAIN t : ~U32Less(v, from_be_bytes(k))

C10_NextKeyIsSuccessor ==
    [][last'.op = "save_next" =>
          LET t == trees["entity_1"]
          IN /\ last'.res = "ok"
             /\ last'.val # None
             /\ LET key == get_key(last'.val[1])
                IN /\ DOMAIN t = {} => key = U32(0)
                   /\ \A v \in StoreKeys : IsLargest(t, v) => IsSuccessor(v, key)
                   /\ get(trees', "entity_1", key) = last'.val]_vars

(***************************************************************************)
(* C11 (as stated): save_next is not atomic against concurrent inserters,  *)
(* two concurrent callers may read the same last key and be assigned the   *)
(* same key; when the callers are serialized every save_next call gets a   *)
(* key, distinct from the key of every other save_next call.               *)
(***************************************************************************)
\* the step is the return of a save_next call of c that no other call overlapped
ReturnsAlone(c) == callers[c].pc = "write" /\ callers'[c].pc = "idle" /\ callers[c].alone

C11_SerializedKeysDistinct ==
    [][/\ last'.op = "save_next" => last'.res = "ok"
       /\ \A c \in Callers :
             ReturnsAlone(c) =>
                 \A d \in Callers : callers[c].next_key[1] \notin callers[d].got]_vars

\* the race: both callers returned from save_next with key 0 on the empty
\* store and the store holds one record
C11_Race ==
    /\ \A c \in Callers : callers[c].pc = "idle" /\ callers[c].got = {U32(0)}
    /\ get_number(trees, "entity_1") = 1

(***************************************************************************)
(* C12: the key encoding is strictly order preserving, hence injective,    *)
(* for keys of one shape: for u32 keys and for (u32, u32) tuples compared  *)
(* component-wise, a < b implies as_bytes(a) < as_bytes(b) in              *)
(* lexicographic byte order; a u32 is encoded big-endian in exactly 4      *)
(* bytes.                                                                  *)
(***************************************************************************)
TupleLess(a, b) == U32Less(a[1], b[1]) \/ (a[1] = b[1] /\ U32Less(a[2], b[2]))

\* the value a big-endian byte string of 4 bytes denotes, as limbs
BigEndianValue(b) == [hi |-> b[1] * 256 + b[2], lo |-> b[3] * 256 + b[4]]

IsBytes(b) == \A i \in 1..Len(b) : b[i] \in 0..255

C12_EncodingOrderPreserving ==
    /\ last.op = "as_bytes_u32" =>
          LET a == last.rec[1]
              b == last.rec[2]
              ea == last.val[1]
              eb == last.val[2]
          IN /\ Len(ea) = 4 /\ IsBytes(ea) /\ BigEndianValue(ea) = a
             /\ U32Less(a, b) => LexLess(ea, eb)
             /\ a # b => ea # eb
    /\ last.op = "as_bytes_u32_u32" =>
          LET a == last.rec[1]
              b == last.rec[2]
              ea == last.val[1]
              eb == last.val[2]
          IN /\ Len(ea) = 8 /\ IsBytes(ea)
             /\ TupleLess(a, b) => LexLess(ea, eb)
             /\ a # b => ea # eb

\* 255 and 256 were encoded: the low byte carries into the next one, and
\* the tuples (0, u32::MAX) and (255, 0) were
C12_Witness ==
    \/ /\ last.op = "as_bytes_u32"
       /\ last.rec = <<U32(255), U32(256)>>
       /\ last.val = << <<0, 0, 0, 255>>, <<0, 0, 1, 0>> >>
    \/ /\ last.op = "as_bytes_u32_u32"
       /\ last.rec = << <<U32(0), U32Max>>, <<U32(255), U32(0)>> >>
       /\ LexLess(last.val[1], last.val[2])

(***************************************************************************)
(* C13: update(key, f) on an absent key returns Ok, does not apply f,      *)
(* inserts nothing and leaves the store unchanged; on a present key it     *)
(* replaces the body under that key with f applied to it and leaves every  *)
(* other entry unchanged.                                                  *)
(***************************************************************************)
C13_UpdateSkipsAbsent ==
    [][last'.op = "update" =>
          LET s == last'.rec[1]
              kb == last'.rec[2]
              f == last'.val[1]
          IN /\ last'.res = "ok"
             /\ relations' = relations
             /\ kb \notin DOMAIN trees[s] => trees' = trees
             /\ kb \in DOMAIN trees[s] =>
                   /\ DOMAIN trees'[s] = DOMAIN trees[s]
                   /\ from_ivec(trees'[s][kb]) = apply_closure(f, from_ivec(trees[s][kb]))
                   /\ \A k \in DOMAIN trees[s] \ {kb} : trees'[s][k] = trees[s][k]
                   /\ \A o \in StoreNames \ {s} : trees'[o] = trees[o]]_vars

\* update was called on the absent key 0 of entity_1 while key 1 is stored:
\* nothing was inserted
C13_Witness ==
    /\ last.op = "update"
    /\ last.rec = Ident(Entity("entity_1", U32(0), 1))
    /\ DOMAIN trees["entity_1"] = {as_bytes_u32(U32(1))}

(***************************************************************************)
(* C14: within one store each key maps to at most one body after any       *)
(* sequence of operations: save(r) on a key already present silently       *)
(* replaces the body and does not change get_number, and get_number always *)
(* equals the number of distinct keys present.                             *)
(***************************************************************************)
\* the keys of store s under which get finds a record
KeysPresent(T, s) == {IdentOf[e][2] : e \in {x \in StoreKeyed : tree_name(x) = s /\ Get(T, x) # None}}

\* the key bytes of the records a full scan of s yields
ScannedKeys(T, s) == LET all == get_all(T, s) IN [i \in 1..Len(all) |-> KeyBytes(all[i])]

C14_OneBodyPerKey ==
    /\ [](\A s \in StoreNames :
             /\ get_number(trees, s) = Cardinality(KeysPresent(trees, s))
             /\ get_number(trees, s) = Len(ScannedKeys(trees, s))
             /\ NoDuplicates(ScannedKeys(trees, s)))
    /\ [][last'.op = "save" =>
             LET s == last'.rec[1]
                 kb == last'.rec[2]
             IN /\ last'.res = "ok"
                /\ get_from_u8_array(trees', s, kb) = last'.val
                /\ kb \in DOMAIN trees[s] => get_number(trees', s) = get_number(trees, s)
                /\ kb \notin DOMAIN trees[s] => get_number(trees', s) = get_number(trees, s) + 1]_vars

\* entity_1 0 was saved over a stored record with another body; the store
\* still holds two keys
C14_Witness ==
    /\ last.op = "save"
    /\ last.prev = Some(Entity("entity_1", U32(0), 1))
    /\ last.val = Some(Entity("entity_1", U32(0), 2))
    /\ Get(trees, Entity("entity_1", U32(0), 1)) = last.val
    /\ get_number(trees, "entity_1") = 2

C16_RegistrationIdempotent ==
    [][last'.op = "register" =>
          LET s == last'.rec[1]
              d == last'.val[1]
          IN /\ FamilyDescriptor_exists(families', s)
             /\ \A o \in StoreNames \ {s} :
                   FamilyDescriptor_get(families', o) = FamilyDescriptor_get(families, o)
             /\ ~FamilyDescriptor_exists(families, s) =>
                   /\ last'.res = "ok"
                   /\ FamilyDescriptor_get(families', s) = Some(d)
             /\ FamilyDescriptor_exists(families, s) =>
                   /\ FamilyDescriptor_get(families', s) = FamilyDescriptor_get(families, s)
                   /\ SameFamily(families[s], d) => last'.res = "ok"
                   /\ ~SameFamily(families[s], d) => last'.res = "schema_error"]_vars

\* entity_1 is registered with its declared sibling; registering it again
\* with one sibling more was refused and the descriptor still lists one
C16_Witness ==
    /\ last.op = "register" /\ last.rec[1] = "entity_1" /\ last.res = "schema_error"
    /\ Len(last.val[1].sibling_trees) = 2
    /\ FamilyDescriptor_exists(families, "entity_1")
    /\ Len(FamilyDescriptor_get(families, "entity_1")[1].sibling_trees) = 1
    /\ \A s \in StoreNames : FamilyDescriptor_exists(families, s)

(***************************************************************************)
(* C17: save_sibling(s, t) sets t.key to s.key and saves t in its own      *)
(* store, so that afterwards t.key = s.key, T.get(s.key) returns t, and s  *)
(* itself is unchanged.                                                    *)
(***************************************************************************)
C17_SaveSiblingSharesKey ==
    [][last'.op = "save_sibling" =>
          LET skey == from_be_bytes(last'.rec[2])
              given == last'.prev[1]
              t == last'.val[1]
          IN /\ last'.res = "ok"
             /\ get_key(t) = skey
             /\ t = [given EXCEPT !.key = skey]
             /\ get(trees', tree_name(t), skey) = Some(t)
             /\ \A o \in StoreNames \ {tree_name(t)} : trees'[o] = trees[o]
             /\ \A k \in DOMAIN trees[tree_name(t)] \ {as_bytes_u32(skey)} :
                   /\ k \in DOMAIN trees'[tree_name(t)]
                   /\ trees'[tree_name(t)][k] = trees[tree_name(t)][k]
             /\ relations' = relations]_vars

\* entity_1 1 is stored and an entity_3 that came with key 0 was saved as
\* its sibling: entity_3 now holds it under key 1 and nothing under key 0
C17_Witness ==
    /\ last.op = "save_sibling"
    /\ last.rec = Ident(Entity("entity_1", U32(1), 1))
    /\ last.prev = Some(Entity("entity_3", U32(0), 1))
    /\ get(trees, "entity_1", U32(1)) = Some(Entity("entity_1", U32(1), 1))
    /\ get(trees, "entity_3", U32(1)) = Some(Entity("entity_3", U32(1), 1))
    /\ get(trees, "entity_3", U32(0)) = None

(***************************************************************************)
(* C18 (as stated): export followed by import is a round trip: importing   *)
(* the export of a store makes get(key) equal to the exported record for   *)
(* every exported key and restores each record's outgoing free relations   *)
(* with their policies, as they were at export time.                       *)
(***************************************************************************)
\* the descriptor a record was exported with (none: no outgoing relation)
ExportedDescriptor(entry) ==
    IF entry[2] = None THEN [related_entities |-> <<>>] ELSE entry[2][1]

DescriptorOf(R, e) ==
    get_descriptor(R, tree_name(e), as_bytes(KeyType(tree_name(e)), get_key(e)))

C18_ImportRoundTrip ==
    [][last'.op = "import" =>
          \A i \in 1..Len(exported) :
              LET e == exported[i][1]
              IN /\ get(trees', tree_name(e), get_key(e)) = Some(e)
                 /\ DescriptorOf(relations', e) = ExportedDescriptor(exported[i])]_vars

(***************************************************************************)
(* C19 (as stated): get_from_start(skip, take, prefix) returns, in         *)
(* ascending key order, the records at positions skip .. skip+take-1 of    *)
(* the (optionally prefix-restricted) scan, fewer when the scan is         *)
(* shorter; get_from_end(skip, take, prefix) returns, in ascending key     *)
(* order, the at most take records that immediately precede the last skip  *)
(* records of that scan.                                                   *)
(***************************************************************************)
\* the scan in ascending key order
ScanOf(T, s, prefix) ==
    IF prefix = None THEN get_all(T, s) ELSE get_with_prefix(T, s, prefix[1])

\* skip <= j < skip + take, in unbounded arithmetic, for a position j
InWindow(j, skip, take) ==
    \E k \in 0..j : skip = Usize(k) /\ UsizeLess(Usize(j - k), take)

\* the records of sc whose position, counted from the start or from the end,
\* lies in the window, in the order of sc
Window(sc, skip, take, from_end) ==
    LET pos(i) == IF from_end THEN Len(sc) - i ELSE i - 1
    IN Records(SelectSeq([i \in 1..Len(sc) |-> <<i, sc[i]>>],
                         LAMBDA x : InWindow(pos(x[1]), skip, take)))

ScanCall == last.op \in {"get_from_start", "get_from_end"}

ScanExpected ==
    Window(ScanOf(trees, last.rec[1], last.rec[2][3]), last.rec[2][1], last.rec[2][2],
           last.op = "get_from_end")

C19_WindowedScans ==
    ScanCall => last.res = "ok" /\ last.val = Some(ScanExpected)

(***************************************************************************)
(* C20: in the export of a store, a record's EntityRelations entry is      *)
(* present if and only if the record has at least one outgoing free        *)
(* relation at export time; a record with none is exported with a null     *)
(* relations entry.                                                        *)
(***************************************************************************)
HasOutgoing(R, e) == \E h \in DOMAIN R : SideA(h) = Ident(e)

C20_RelationsPresentIffOutgoing ==
    last.op = "export" =>
        /\ Len(exported) = get_number(trees, last.rec[1])
        /\ \A i \in 1..Len(exported) :
               /\ (exported[i][2] # None) <=> HasOutgoing(relations, exported[i][1])
               /\ ~HasOutgoing(relations, exported[i][1]) => exported[i][2] = None

\* entity_1 0 was exported while related to entity_2 "a": its entry carries
\* a descriptor with that one relation
C20_Witness ==
    /\ last.op = "export"
    /\ Half(Ident(ImpE1), Ident(ImpE2)) \in DOMAIN relations
    /\ Len(exported) = 1
    /\ exported[1][1] = ImpE1
    /\ exported[1][2] # None
    /\ Len(exported[1][2][1].related_entities) = 1

(***************************************************************************)
(* C21 (as stated): after a.remove_related::<E>() returns Ok, every E      *)
(* record that was free-related to a is absent from store E, no            *)
(* free-relation half between a and any E record remains in either         *)
(* direction, a.has_related::<E>() is false and a.get_related::<E>() is    *)
(* empty; a itself and its relations to other stores are unchanged.        *)
(***************************************************************************)
IsRemoveRelated == last'.op = "remove_related" /\ last'.res = "ok"

\* the halves between record a and the records of store e, in both directions
HalvesBetween(R, a, e) ==
    {h \in DOMAIN R : (SideA(h) = a /\ h[3] = e) \/ (SideB(h) = a /\ h[1] = e)}

\* the halves of record a with the records of the stores other than e
HalvesElsewhere(R, a, e) ==
    {h \in DOMAIN R : (SideA(h) = a /\ h[3] # e) \/ (SideB(h) = a /\ h[1] # e)}

RelatedGone(a, e) ==
    /\ \A k \in SeqToSet(referers(relations, a, e)) : ~Present(trees', <<e, k>>)
    /\ ~has_related(relations', a, e)
    /\ get_related(trees', relations', a, e) = <<>>

ElsewhereUnchanged(a, e) ==
    /\ HalvesElsewhere(relations', a, e) = HalvesElsewhere(relations, a, e)
    /\ \A h \in HalvesElsewhere(relations, a, e) : relations'[h] = relations[h]

RelatedTo(R, a, e) == {SideB(h) : h \in {x \in DOMAIN R : SideA(x) = a /\ x[3] = e}}

Satisfying(T, s, pred) == {k \in DOMAIN T[s] : apply_pred(pred, from_ivec(T[s][k]))}

C22_FilterRemoveExact ==
    [][last'.op = "filter_remove" =>
          LET s == last'.rec[1]
              pred == last'.rec[2][1]
              hit == Satisfying(trees, s, pred)
              res == last'.val[1]
          IN /\ last'.res = "ok"
             /\ SeqToSet(res) = {from_ivec(trees[s][k]) : k \in hit}
             /\ Len(res) = Cardinality(hit)
             /\ DOMAIN trees'[s] = DOMAIN trees[s] \ hit
             /\ \A k \in DOMAIN trees[s] \ hit : trees'[s][k] = trees[s][k]
             /\ \A o \in StoreNames \ {s} : trees'[o] = trees[o]
             /\ get_with_filter(trees', s, pred) = <<>>]_vars

(***************************************************************************)
(* C25 (as stated): in every state reached after any sequence of save,     *)
(* save_next, update, filter_update, remove, filter_remove and             *)
(* import_json, each entry of a store's tree is stored under the encoding  *)
(* of its own key, for any mutation closure passed to update or            *)
(* filter_update.                                                          *)
(***************************************************************************)
StoredUnderOwnKey(T) ==
    \A s \in StoreNames : \A k \in DOMAIN T[s] :
        as_bytes(KeyType(s), get_key(from_ivec(T[s][k]))) = k

C25_StoredUnderOwnKey == StoredUnderOwnKey(trees)

(***************************************************************************)
(* C23 (as stated): key-field resolution of an entity declaration: when no *)
(* id is given, the field named id becomes the key and its type the key    *)
(* type, and a declaration with no such field is rejected with an error;   *)
(* when an id is given, it must name an existing field, whose type becomes *)
(* the key type, otherwise the declaration is rejected with a 'Cannot find *)
(* referenced field' error.  Every accepted declaration has both id and    *)
(* id_type set.                                                            *)
(***************************************************************************)
Parsed == last.op = "parse"

GivenId == last.rec[2][1]

GivenFields == last.rec[2][2]

Resolved == last.val[1]

Accepted == Resolved.errors = <<>>

HasField(name) == \E i \in 1..Len(GivenFields) : GivenFields[i][1] = name

HasError(msg) == \E i \in 1..Len(Resolved.errors) : Resolved.errors[i].msg = msg

\* the key is the field called name and the key type is that field's type
KeyIs(name) ==
    /\ Accepted
    /\ Resolved.id = Some(name)
    /\ Resolved.id_type # None
    /\ \E i \in 1..Len(GivenFields) : GivenFields[i] = <<name, Resolved.id_type[1]>>

\* the id given is the name of a field
NamesField == Len(GivenId[1]) = 1 /\ HasField(GivenId[1][1])

NoIdGiven ==
    GivenId = None => IF HasField("id") THEN KeyIs("id") ELSE ~Accepted

AcceptedIsSet == Accepted => Resolved.id # None /\ Resolved.id_type # None

Kept(x) == Present(trees', x) /\ trees'[x[1]][x[2]] = trees[x[1]][x[2]]

C24_RemoveOnlyCascade ==
    /\ [][(last'.op = "remove" /\ last'.res = "ok") =>
            \A x \in AllIdents(trees) \ CascadeClosure(trees, relations, last'.rec) :
                Kept(x)]_vars
    /\ [][last'.op = "remove_prefixed" =>
            \A k \in DOMAIN trees[last'.rec[1]] \ ChildrenOf(trees, last'.rec, last'.rec[1]) :
                Kept(<<last'.rec[1], k>>)]_vars

(***************************************************************************)
(* C26 (as stated): for a single caller, save_next never overwrites an     *)
(* existing record: the key returned by get_next_key is strictly greater   *)
(* than every key present in the store, for every store content including  *)
(* one that holds the largest u32 key, so get_number grows by exactly one  *)
(* on each save_next.                                                      *)
(***************************************************************************)
C26_SaveNextNeverOverwrites ==
    [][last'.op = "save_next" =>
          /\ last'.res = "ok"
          /\ last'.val # None
          /\ LET s == last'.rec[1]
                 key == get_key(last'.val[1])
             IN /\ \A k \in DOMAIN trees[s] : U32Less(from_be_bytes(k), key)
                /\ as_bytes_u32(key) \notin DOMAIN trees[s]
                /\ get_number(trees', s) = get_number(trees, s) + 1]_vars

(***************************************************************************)
(* C27: concurrent update(k, f) and update(k, g) on a present key end with *)
(* the body f(g(v)) or g(f(v)) of the initial body v, no update is lost;   *)
(* a concurrent update and remove end with k absent or with the updated    *)
(* body, and once the remove has returned no body is stored under k again. *)
(***************************************************************************)
AtomicEntry == tree_get(get_tree(trees, "entity_1"), as_bytes_u32(AtomicKey))

BothUpdate == \A c \in Callers : callers[c].call.op = "update"

Composed(f, g, v) == update_closure(f, update_closure(g, v))

C27_ConcurrentUpdatesNotLost ==
    /\ (AllDone /\ BothUpdate) =>
          LET f == callers[1].call.f
              g == callers[2].call.f
              v == callers[1].initial
          IN AtomicEntry \in {Composed(f, g, v), Composed(g, f, v)}
    /\ (AllDone /\ ~BothUpdate) =>
          AtomicEntry \in {None, update_closure(callers[1].call.f, callers[1].initial)}
    /\ \A c \in Callers :
          (callers[c].pc = "done" /\ callers[c].call.op = "remove") => AtomicEntry = None

\* both updates of a present record have returned, one of them after it had
\* to start over, and the body holds both additions
C27_Witness ==
    /\ AllDone /\ BothUpdate
    /\ callers[1].initial # None
    /\ \E c \in Callers : callers[c].retried
    /\ callers[1].call.f # callers[2].call.f
    /\ AtomicEntry = Composed(callers[1].call.f, callers[2].call.f, callers[1].initial)


(***************************************************************************)
(* C28: under any interleaving of remove(p), p's child relation having     *)
(* policy Error, with a concurrent save of a child c of p, no state is     *)
(* reached after both have completed in which p is absent and c present.   *)
(* As stated: a remove of an entity_3 record that returns Ok leaves no     *)
(* child of it behind.                                                     *)
(***************************************************************************)
EndsRemoveOfParent == walk.active /\ last'.op = "remove" /\ last'.rec[1] = "entity_3"

====
